---- MODULE Spec2Model ----
(***************************************************************************)
(* DatasetDownloader: the batch runner, the download operation and the     *)
(* extraction operation of downloader.js, extract-only.js and the combined *)
(* downloader (the node program stored in extract-open-images.sh).         *)
(*                                                                         *)
(* One process is modelled at a time; env.program says which script runs.  *)
(* The directories outlive the process, so a second invocation (Restart)   *)
(* sees what the first one left behind.                                    *)
(***************************************************************************)
EXTENDS Integers, Sequences, FiniteSets, TLC

VARIABLES
  env,                   \* process.env and argv of the invocation; env.program is the script
  run,                   \* number of the invocation (1 = first)
  mainpc,                \* position of the controlling line of execution
  exitCode,              \* process exit code, NoExit while running
  exitVia,               \* which process.exit call ended the process
  concurrentDownloads,   \* this.concurrentDownloads
  retryAttempts,         \* this.retryAttempts
  concurrentExtractions, \* this.concurrentExtractions
  deleteAfterUnzip,      \* this.deleteAfterUnzip
  autoUnzip,             \* this.autoUnzip
  downloadUrls,          \* this.downloadUrls
  completed,             \* this.completed
  failed,                \* this.failed
  total,                 \* this.total
  i,                     \* loop index of downloadAll (0-based, as in the source)
  batch,                 \* positions of the items dispatched by the current iteration
  results,               \* the results array of downloadAll
  iter,                  \* loop iterations of downloadAll begun so far
  slices,                \* the batches downloadAll formed so far, in order
  pc,                    \* per item: position of its downloadFile call chain
  attempt,               \* per item: the attempt parameter of the running downloadFile call
  res,                   \* per item: the value its promise resolved to
  gets,                  \* per item: GET requests issued by the current attempt
  fails,                 \* per item: attempts that ended in the catch block
  archiveFiles,          \* the archiveFiles array of extractAll
  extractedFiles,        \* this.extractedFiles
  failedExtractions,     \* this.failedExtractions
  xi,                    \* loop index of extractAll
  xbatch,                \* positions of the archives dispatched by the current iteration
  xresults,              \* the results array of extractAll
  xiter,                 \* loop iterations of extractAll begun so far
  xslices,               \* the batches extractAll formed so far, in order
  xpc,                   \* per archive: position of its extractTgzFile call chain
  xattempt,              \* per archive: the attempt parameter of the running call
  xres,                  \* per archive: the value its promise resolved to
  xstats,                \* per archive: what getDirectoryStats returned to the current attempt
  xfails,                \* per archive: attempts that ended in the catch block
  fs,                    \* download directory: file name -> byte length, Absent if none
  src,                   \* a source directory other than the download directory
  dest,                  \* destination directory: subdirectory -> archives unpacked into it
  prev,                  \* URLs whose download ended in Success in the previous invocation
  log,                   \* what the loops, summaries and start() passed to this.log
  console                \* what this.log wrote with console.log, in order

cfgvars == <<concurrentDownloads, retryAttempts, concurrentExtractions, deleteAfterUnzip,
             autoUnzip>>
dlmain == <<downloadUrls, completed, failed, total, i, batch, results, iter, slices>>
dlitem == <<pc, attempt, res, gets, fails>>
xmain == <<archiveFiles, extractedFiles, failedExtractions, xi, xbatch, xresults, xiter,
           xslices>>
xitem == <<xpc, xattempt, xres, xstats, xfails>>
disk == <<fs, src, dest>>
proc == <<mainpc, exitCode, exitVia>>

vars == <<env, run, prev, log, console, proc, cfgvars, dlmain, dlitem, xmain, xitem, disk>>

----------------------------------------------------------------------------
(* Bounds of the model *)

MaxItems == 3      \* longest worklist
MaxIter == 4       \* loop iterations explored (a negative step never leaves the loop)
MaxRuns == 2       \* invocations of the program on the same file system

(* Defaults of the constructors *)
DefaultConcurrentDownloads == 3
DefaultRetryAttempts == 3
DefaultConcurrentExtractions == 2

NoExit == -1
Absent == -1
NoRes == [item |-> 0, success |-> FALSE, skipped |-> FALSE, bytes |-> 0,
          url |-> "", fileName |-> <<>>, error |-> "pending"]
NoStats == [files |-> 0, size |-> 0]

Max(a, b) == IF a >= b THEN a ELSE b
Min(a, b) == IF a <= b THEN a ELSE b

----------------------------------------------------------------------------
(* Environment variables.  A value is <<>> when the variable is unset or   *)
(* not a number (parseInt gives NaN) and <<n>> when parseInt gives n.      *)

NaN == <<>>

\* parseInt(process.env.X) || d : NaN and 0 are falsy, every other number is kept
ParseIntOr(v, d) == IF v = NaN THEN d ELSE IF v[1] = 0 THEN d ELSE v[1]

\* what the numeric variables are set to: unset or not a number, and numbers
\* around 0
NonZeroInts == {NaN, <<1>>, <<2>>, <<-1>>}
ExtractionInts == {NaN, <<1>>, <<-1>>}
Zero == {<<0>>}

----------------------------------------------------------------------------
(* The remote resources.  A file name is the sequence of its dot-separated *)
(* parts: a.tar.gz is <<"a", "tar", "gz">>.                                *)

Urls == {"http://h1/a.tgz", "http://h2/b"}

\* path.basename(new URL(url).pathname)
BaseName(url) ==
  CASE url = "http://h1/a.tgz" -> <<"a", "tgz">>
    [] url = "http://h2/b" -> <<"b">>

\* the headers the server answers a HEAD request with (NaN: no such header)
Headers(url) ==
  CASE url = "http://h1/a.tgz" ->
         [contentDisposition |-> <<>>, contentType |-> "application/gzip", contentLength |-> <<2>>]
    [] url = "http://h2/b" ->
         [contentDisposition |-> <<>>, contentType |-> "text/plain", contentLength |-> NaN]

\* number of bytes of the response body of a GET
BodySize(url) ==
  CASE url = "http://h1/a.tgz" -> 2
    [] url = "http://h2/b" -> 1

\* path.extname: the last part when there is more than one
ExtName(name) == IF Len(name) > 1 THEN name[Len(name)] ELSE ""

getFileName(url, headers) ==
  IF headers.contentDisposition # <<>>
  THEN headers.contentDisposition
  ELSE LET fileName == BaseName(url) IN
       IF ExtName(fileName) = ""
       THEN CASE headers.contentType = "application/zip" -> Append(fileName, "zip")
              [] headers.contentType = "application/pdf" -> Append(fileName, "pdf")
              [] headers.contentType = "text/plain" -> Append(fileName, "txt")
              [] headers.contentType = "image/jpeg" -> Append(fileName, "jpg")
              [] headers.contentType = "image/png" -> Append(fileName, "png")
              [] OTHER -> fileName
       ELSE fileName

FileNames == {getFileName(u, Headers(u)) : u \in Urls}

\* the destination of an item of the worklist
FileOf(k) == getFileName(downloadUrls[k], Headers(downloadUrls[k]))

\* faulty variant: the header read under a name axios does not use
ContentLengthMissing(headers) == 0

\* parseInt(headers['content-length']) || 0
ContentLengthOf(headers) == ParseIntOr(headers.contentLength, 0)

----------------------------------------------------------------------------
(* Array.prototype.slice(start, end) on a sequence, 0-based as in the      *)
(* source: a negative index counts from the end, both are clamped.         *)

RelIndex(n, len) == IF n < 0 THEN Max(len + n, 0) ELSE Min(n, len)

Slice(s, start, end) ==
  LET from == RelIndex(start, Len(s))
      to == RelIndex(end, Len(s))
  IN IF to <= from THEN <<>> ELSE SubSeq(s, from + 1, to)

Positions(w) == [k \in 1..Len(w) |-> k]

RECURSIVE SeqsUpTo(_, _)
SeqsUpTo(S, n) ==
  IF n = 0 THEN {<<>>}
  ELSE LET shorter == SeqsUpTo(S, n - 1)
       IN shorter \cup {Append(s, x) : s \in {t \in shorter : Len(t) = n - 1}, x \in S}

----------------------------------------------------------------------------
(* Archives.  SrcNames are the files a source directory may hold.          *)

SrcNames == {<<"a", "tar">>, <<"a", "tgz">>, <<"b", "tar">>, <<"n", "txt">>}

\* the order in which readdir lists a directory
DirOrder == << <<"a", "tar">>, <<"a", "tgz">>, <<"b", "tar">>, <<"b", "txt">>, <<"n", "txt">> >>

\* ['.tgz', '.tar.gz', '.tar', '.gz'].includes(ext) || filename.endsWith('.tar.gz')
isSupportedArchive(filename) ==
  \/ ExtName(filename) \in {"tgz", "tar", "gz"}
  \/ /\ Len(filename) >= 3
     /\ filename[Len(filename) - 1] = "tar"
     /\ filename[Len(filename)] = "gz"

\* path.parse(name).name : the name without its last extension
Stem(name) == IF Len(name) > 1 THEN SubSeq(name, 1, Len(name) - 1) ELSE name

Stems == {Stem(n) : n \in SrcNames \cup FileNames}

\* bytes unpacked from one archive (every archive holds one file of this size)
ArchiveBytes == 2

NoDir == [exists |-> FALSE, files |-> {}]

----------------------------------------------------------------------------
(* The invocations explored.                                               *)

DefaultEnv ==
  [program |-> "downloader", help |-> FALSE, urls |-> <<>>, urlsFrom |-> "argv",
   CONCURRENT_DOWNLOADS |-> NaN, RETRY_ATTEMPTS |-> NaN, CONCURRENT_EXTRACTIONS |-> NaN,
   DELETE_AFTER_UNZIP |-> FALSE, AUTO_UNZIP |-> FALSE, sameDirs |-> TRUE,
   LOG_LEVEL |-> ""]

\* downloader.js.  The URLs come from DOWNLOAD_URLS (split, trimmed, blanks dropped)
\* when that variable is a non-empty string, else from argv.  The two sources
\* differ only for the empty list: DOWNLOAD_URLS = "," gives [] from the first
\* branch, while an empty argv reaches the usage message.
DownloaderEnvs(C, R, n) ==
  {[DefaultEnv EXCEPT !.CONCURRENT_DOWNLOADS = c, !.RETRY_ATTEMPTS = r, !.urls = w] :
     c \in C, r \in R, w \in SeqsUpTo(Urls, n) \ {<<>>}}
  \cup {[DefaultEnv EXCEPT !.urlsFrom = f] : f \in {"argv", "DOWNLOAD_URLS"}}

\* extract-only.js
ExtractorEnvs(X, R) ==
  {[DefaultEnv EXCEPT !.program = "extractor", !.CONCURRENT_EXTRACTIONS = x,
                      !.RETRY_ATTEMPTS = r, !.DELETE_AFTER_UNZIP = d] :
     x \in X, r \in R, d \in BOOLEAN}
  \cup {[DefaultEnv EXCEPT !.program = "extractor", !.help = TRUE]}

\* the combined downloader
CombinedEnvs(R, n) ==
  {[DefaultEnv EXCEPT !.program = "combined", !.RETRY_ATTEMPTS = r, !.urls = w,
                      !.AUTO_UNZIP = a, !.DELETE_AFTER_UNZIP = d, !.sameDirs = s] :
     r \in R, w \in SeqsUpTo(Urls, n) \ {<<>>}, a \in BOOLEAN, d \in BOOLEAN, s \in BOOLEAN}

\* what the other source directory holds when the process starts
SourceDirs(e, n) ==
  IF e.program = "extractor" /\ ~e.help
  THEN {NoDir} \cup {[exists |-> TRUE, files |-> F] :
                       F \in {G \in SUBSET SrcNames : Cardinality(G) <= n}}
  ELSE IF e.program = "combined" /\ e.AUTO_UNZIP /\ ~e.sameDirs
  THEN {NoDir, [exists |-> TRUE, files |-> {<<"a", "tar">>}]}
  ELSE {NoDir}

InitWith(E, n) ==
  /\ env \in E
  /\ src \in SourceDirs(env, n)
  /\ run = 1
  /\ mainpc = "ctor"
  /\ exitCode = NoExit
  /\ exitVia = "none"
  /\ concurrentDownloads = 0
  /\ retryAttempts = 0
  /\ concurrentExtractions = 0
  /\ deleteAfterUnzip = FALSE
  /\ autoUnzip = FALSE
  /\ downloadUrls = <<>>
  /\ completed = 0
  /\ failed = 0
  /\ total = 0
  /\ i = 0
  /\ batch = <<>>
  /\ results = <<>>
  /\ iter = 0
  /\ slices = <<>>
  /\ pc = <<>>
  /\ attempt = <<>>
  /\ res = <<>>
  /\ gets = <<>>
  /\ fails = <<>>
  /\ archiveFiles = <<>>
  /\ extractedFiles = 0
  /\ failedExtractions = 0
  /\ xi = 0
  /\ xbatch = <<>>
  /\ xresults = <<>>
  /\ xiter = 0
  /\ xslices = <<>>
  /\ xpc = <<>>
  /\ xattempt = <<>>
  /\ xres = <<>>
  /\ xstats = <<>>
  /\ xfails = <<>>
  /\ prev = {}
  /\ log = <<>>
  /\ console = <<>>
  /\ fs = [f \in FileNames |-> Absent]
  /\ dest = [d \in Stems |-> {}]

Init ==
  InitWith(DownloaderEnvs({<<2>>}, {<<1>>, <<2>>}, MaxItems)
           \cup DownloaderEnvs({NaN, <<1>>, <<-1>>}, {<<1>>, <<2>>, <<-1>>}, MaxItems - 1)
           \cup DownloaderEnvs({NaN} \cup Zero, {NaN} \cup Zero, MaxItems - 2)
           \cup ExtractorEnvs(ExtractionInts, NonZeroInts)
           \cup ExtractorEnvs(Zero, Zero)
           \cup CombinedEnvs({<<1>>, <<2>>}, MaxItems - 1),
           MaxItems)

----------------------------------------------------------------------------
(* The controlling line of execution: constructor, start(), downloadAll    *)

\* process.exit(code)
Exit(code, via) ==
  /\ mainpc' = "exited"
  /\ exitCode' = code
  /\ exitVia' = via

Running == mainpc # "exited"

parseDownloadUrls(e) ==
  IF e.urlsFrom = "DOWNLOAD_URLS" THEN [exit |-> FALSE, urls |-> e.urls]
  ELSE IF Len(e.urls) > 0 THEN [exit |-> FALSE, urls |-> e.urls]
  ELSE [exit |-> TRUE, urls |-> <<>>]

\* new FileDownloader(); downloader.start() up to its first await
ConstructDownloader ==
  /\ mainpc = "ctor"
  /\ env.program \in {"downloader", "combined"}
  /\ concurrentDownloads' = ParseIntOr(env.CONCURRENT_DOWNLOADS, DefaultConcurrentDownloads)
  /\ retryAttempts' = ParseIntOr(env.RETRY_ATTEMPTS, DefaultRetryAttempts)
  /\ IF env.program = "combined"
     THEN /\ autoUnzip' = env.AUTO_UNZIP
          /\ deleteAfterUnzip' = env.DELETE_AFTER_UNZIP
          /\ concurrentExtractions' =
               ParseIntOr(env.CONCURRENT_EXTRACTIONS, DefaultConcurrentExtractions)
     ELSE UNCHANGED <<autoUnzip, deleteAfterUnzip, concurrentExtractions>>
  /\ LET parsed == parseDownloadUrls(env) IN
     IF parsed.exit
     THEN /\ Exit(1, "usage")
          /\ UNCHANGED <<downloadUrls, total, dlitem>>
     ELSE /\ downloadUrls' = parsed.urls
          /\ total' = Len(parsed.urls)
          /\ pc' = [k \in 1..Len(parsed.urls) |-> "idle"]
          /\ attempt' = [k \in 1..Len(parsed.urls) |-> 0]
          /\ res' = [k \in 1..Len(parsed.urls) |-> NoRes]
          /\ gets' = [k \in 1..Len(parsed.urls) |-> 0]
          /\ fails' = [k \in 1..Len(parsed.urls) |-> 0]
          /\ mainpc' = "ensureDir"
          /\ UNCHANGED <<exitCode, exitVia>>
  /\ completed' = 0
  /\ failed' = 0
  /\ extractedFiles' = 0
  /\ failedExtractions' = 0
  /\ UNCHANGED <<env, run, prev, log, console, i, batch, results, iter, slices, archiveFiles, xi, xbatch,
                 xresults, xiter, xslices, xitem, disk>>

\* extract-only.js: --help, else new ArchiveExtractor(); extractor.start() up to
\* the first await of extractAll
ConstructExtractor ==
  /\ mainpc = "ctor"
  /\ env.program = "extractor"
  /\ IF env.help
     THEN /\ Exit(0, "help")
          /\ UNCHANGED <<cfgvars, extractedFiles, failedExtractions>>
     ELSE /\ deleteAfterUnzip' = env.DELETE_AFTER_UNZIP
          /\ concurrentExtractions' =
               ParseIntOr(env.CONCURRENT_EXTRACTIONS, DefaultConcurrentExtractions)
          /\ retryAttempts' = ParseIntOr(env.RETRY_ATTEMPTS, DefaultRetryAttempts)
          /\ extractedFiles' = 0
          /\ failedExtractions' = 0
          /\ mainpc' = "scan"
          /\ UNCHANGED <<exitCode, exitVia, concurrentDownloads, autoUnzip>>
  /\ UNCHANGED <<env, run, prev, log, console, dlmain, dlitem, archiveFiles, xi, xbatch, xresults, xiter,
                 xslices, xitem, disk>>

----------------------------------------------------------------------------
(* log(level, message)                                                     *)

\* const levels = { error: 0, warn: 1, info: 2 }; a name that is not a key
\* gives undefined
levels(name) ==
  CASE name = "error" -> <<0>>
    [] name = "warn" -> <<1>>
    [] name = "info" -> <<2>>
    [] OTHER -> NaN

\* this.logLevel = process.env.LOG_LEVEL || 'info' ("" when the variable is unset)
logLevel == IF env.LOG_LEVEL = "" THEN "info" ELSE env.LOG_LEVEL

\* levels[this.logLevel] || 2 : undefined and 0 are falsy
currentLevel == ParseIntOr(levels(logLevel), 2)

\* if (levels[level] <= currentLevel)
Emits(level) == levels(level)[1] <= currentLevel

\* the level each logged entry is passed with
LevelOf(e) ==
  CASE e.kind = "fatal" -> "error"
    [] e.kind = "failures" -> "warn"
    [] OTHER -> "info"

\* this.log('error', `Fatal error: ${error.message}`) in the catch of start()
Fatal(pipeline) == [kind |-> "fatal", pipeline |-> pipeline]

\* console.log for each of the calls of this step that passes the test
WriteConsole ==
  console' = console \o SelectSeq(SubSeq(log', Len(log) + 1, Len(log')),
                                   LAMBDA e : Emits(LevelOf(e)))

----------------------------------------------------------------------------
\* ensureDownloadDirectory resolved: downloadAll enters its loop
EnsureDirOk ==
  /\ mainpc = "ensureDir"
  /\ mainpc' = "loop"
  /\ i' = 0
  /\ results' = <<>>
  /\ UNCHANGED <<env, run, prev, log, console, exitCode, exitVia, cfgvars, downloadUrls, completed, failed,
                 total, batch, iter, slices, dlitem, xmain, xitem, disk>>

\* ensureDownloadDirectory threw: downloadAll rejects, start() catches and exits
EnsureDirFail ==
  /\ mainpc = "ensureDir"
  /\ Exit(1, "fatal")
  /\ log' = Append(log, Fatal("download"))
  /\ WriteConsole
  /\ UNCHANGED <<env, run, prev, cfgvars, dlmain, dlitem, xmain, xitem, disk>>

\* the step of the for loop: i += this.concurrentDownloads
NextIndex(index, step) == index + step

\* faulty variant: list.slice(i, step), the end index not offset by i
BatchAtFromStart(list, index, step) == Slice(Positions(list), index, step)

\* the batch of one iteration: list.slice(i, i + step), as positions of the list
BatchAt(list, index, step) == Slice(Positions(list), index, index + step)

\* one iteration of the for loop up to `await Promise.all(batchPromises)`
StartBatch ==
  /\ mainpc = "loop"
  /\ i < Len(downloadUrls)
  /\ iter < MaxIter
  /\ LET b == BatchAt(downloadUrls, i, concurrentDownloads)
         started == {b[n] : n \in 1..Len(b)}
     IN /\ batch' = b
        /\ slices' = Append(slices, b)
        /\ pc' = [k \in DOMAIN pc |-> IF k \in started THEN "head" ELSE pc[k]]
        /\ attempt' = [k \in DOMAIN pc |-> IF k \in started THEN 1 ELSE attempt[k]]
        /\ gets' = [k \in DOMAIN pc |-> IF k \in started THEN 0 ELSE gets[k]]
  /\ iter' = iter + 1
  /\ mainpc' = "await"
  /\ UNCHANGED <<env, run, prev, log, console, exitCode, exitVia, cfgvars, downloadUrls, completed, failed,
                 total, i, results, res, fails, xmain, xitem, disk>>

\* this.log('info', `Progress: ${done}/${total} completed, ${failed} failed`)
Progress(pipeline, done, all, nFailed) ==
  [kind |-> "progress", pipeline |-> pipeline, total |-> all, done |-> done,
   failed |-> nFailed, bytes |-> 0, files |-> 0]

\* the summary lines: totals, counters and the total of the bytes (and files)
Summary(pipeline, all, done, nFailed, bytes, files) ==
  [kind |-> "summary", pipeline |-> pipeline, total |-> all, done |-> done,
   failed |-> nFailed, bytes |-> bytes, files |-> files]

\* this.log('info', 'No archive files found to extract')
NothingToDo ==
  [kind |-> "nothing", pipeline |-> "extraction", total |-> 0, done |-> 0,
   failed |-> 0, bytes |-> 0, files |-> 0]

\* faulty variant: the report made of every outcome, the filter left out
AllResults(rs) == rs

\* results.filter(r => !r.success)
FailedResults(rs) == SelectSeq(rs, LAMBDA r : ~r.success)

\* this.log('warn', `  ${result.url}: ${result.error}`) for each failed download
DownloadFailureLines(rs) ==
  LET failedResults == FailedResults(rs) IN
  [n \in 1..Len(failedResults) |->
     [id |-> failedResults[n].url, error |-> failedResults[n].error]]

\* this.log('warn', `  ${result.sourceFilePath}: ${result.error}`) for each
\* failed extraction
ExtractionFailureLines(rs) ==
  LET failedResults == FailedResults(rs) IN
  [n \in 1..Len(failedResults) |->
     [id |-> failedResults[n].sourceFilePath, error |-> failedResults[n].error]]

\* if (failedResults.length > 0): the heading and one line per failed result
WithFailureReport(l, pipeline, lines) ==
  IF Len(lines) > 0
  THEN Append(l, [kind |-> "failures", pipeline |-> pipeline, lines |-> lines])
  ELSE l

RECURSIVE TotalBytesOfTail(_)
\* faulty variant: a reduce without its initial value, the first outcome taken
\* as the accumulator and its bytes never added
TotalBytesOfTail(rs) ==
  IF rs = <<>> THEN 0
  ELSE IF Len(rs) = 1 THEN 0
  ELSE (IF rs[2].success /\ rs[2].bytes # 0 THEN rs[2].bytes ELSE 0)
       + TotalBytesOfTail(Tail(rs))

RECURSIVE TotalBytes(_)
\* results.filter(r => r.success && r.bytes).reduce((sum, r) => sum + r.bytes, 0)
TotalBytes(rs) ==
  IF rs = <<>> THEN 0
  ELSE (IF rs[1].success /\ rs[1].bytes # 0 THEN rs[1].bytes ELSE 0) + TotalBytes(Tail(rs))

RECURSIVE TotalExtractedSize(_)
\* results.filter(r => r.success && r.extractedSize).reduce(.. + r.extractedSize, 0)
TotalExtractedSize(rs) ==
  IF rs = <<>> THEN 0
  ELSE (IF rs[1].success /\ rs[1].extractedSize # 0 THEN rs[1].extractedSize ELSE 0)
       + TotalExtractedSize(Tail(rs))

RECURSIVE TotalExtractedFiles(_)
\* results.filter(r => r.success && r.extractedFiles).reduce(.. + r.extractedFiles, 0)
TotalExtractedFiles(rs) ==
  IF rs = <<>> THEN 0
  ELSE (IF rs[1].success /\ rs[1].extractedFiles # 0 THEN rs[1].extractedFiles ELSE 0)
       + TotalExtractedFiles(Tail(rs))

RECURSIVE CountWhere(_, _)
\* number of entries of a result list whose success field equals flag
CountWhere(rs, flag) ==
  IF rs = <<>> THEN 0
  ELSE (IF rs[1].success = flag THEN 1 ELSE 0) + CountWhere(Tail(rs), flag)

\* faulty variant: the values collected last-resolved first
PromiseAllReversed(b, r) == [n \in 1..Len(b) |-> r[b[Len(b) + 1 - n]]]

\* Promise.all(batchPromises): the resolved values in the order of the promises
PromiseAll(b, r) == [n \in 1..Len(b) |-> r[b[n]]]

\* faulty variant: Promise.race, resuming with the first promise that resolved
AnySettled(b, p) == \E n \in 1..Len(b) : p[b[n]] = "done"

\* await Promise.all(batchPromises) resumes when every promise of the batch resolved
BatchSettled(b, p) == \A n \in 1..Len(b) : p[b[n]] = "done"

\* faulty variant: an item that needed a retry is counted as failed
CountFailedAttempts(batchResults) ==
  Cardinality({n \in 1..Len(batchResults) :
                 \/ ~batchResults[n].success
                 \/ IF mainpc = "await" THEN fails[batchResults[n].item] > 0
                    ELSE xfails[batchResults[n].item] > 0})

\* faulty variant: a skipped download is not counted as completed
CountSucceededNotSkipped(batchResults) ==
  Cardinality({n \in 1..Len(batchResults) :
                 /\ batchResults[n].success
                 /\ ~("skipped" \in DOMAIN batchResults[n] /\ batchResults[n].skipped)})

\* batchResults.forEach(result => { if (result.success) ok++; else failed++; })
CountSucceeded(batchResults) == CountWhere(batchResults, TRUE)
CountFailed(batchResults) == CountWhere(batchResults, FALSE)

\* Promise.all resolved: results.push(...batchResults), counters, progress, i += step
JoinBatch ==
  /\ mainpc = "await"
  /\ BatchSettled(batch, pc)
  /\ LET batchResults == PromiseAll(batch, res) IN
     /\ results' = results \o batchResults
     /\ completed' = completed + CountSucceeded(batchResults)
     /\ failed' = failed + CountFailed(batchResults)
  /\ log' = Append(log, Progress("download", completed', total, failed'))
  /\ WriteConsole
  /\ i' = NextIndex(i, concurrentDownloads)
  /\ batch' = <<>>
  /\ mainpc' = "loop"
  /\ UNCHANGED <<env, run, prev, exitCode, exitVia, cfgvars, downloadUrls, total, iter, slices,
                 dlitem, xmain, xitem, disk>>

\* faulty variant: the combined downloader looking at the downloads only
OverallSuccessDownloadsOnly(program, nFailed, nFailedExtractions) ==
  CASE program = "downloader" -> nFailed = 0
    [] program = "extractor" -> nFailedExtractions = 0
    [] program = "combined" -> nFailed = 0

\* the test of start() that picks the exit code
OverallSuccess(program, nFailed, nFailedExtractions) ==
  CASE program = "downloader" -> nFailed = 0
    [] program = "extractor" -> nFailedExtractions = 0
    [] program = "combined" -> nFailed = 0 /\ nFailedExtractions = 0

Decide ==
  IF OverallSuccess(env.program, failed, failedExtractions)
  THEN Exit(0, "start")
  ELSE Exit(1, "start")

\* faulty variant: the extraction is left out when a download has failed
FinishDownloadsStopOnFailure ==
  /\ mainpc = "loop"
  /\ ~(i < Len(downloadUrls))
  /\ IF env.program = "combined" /\ autoUnzip /\ failed = 0
     THEN /\ mainpc' = "scan"
          /\ pc' = <<>>
          /\ attempt' = <<>>
          /\ res' = <<>>
          /\ gets' = <<>>
          /\ fails' = <<>>
          /\ UNCHANGED <<exitCode, exitVia>>
     ELSE /\ Decide
          /\ UNCHANGED dlitem
  /\ log' = WithFailureReport(Append(log, Summary("download", total, completed, failed,
                                                   TotalBytes(results), 0)),
                              "download", DownloadFailureLines(results))
  /\ WriteConsole
  /\ UNCHANGED <<env, run, prev, cfgvars, dlmain, xmain, xitem, disk>>

\* the loop is left and downloadAll returns to start(): the combined downloader
\* with autoUnzip goes on to extractAllArchives, otherwise the exit code is decided
FinishDownloads ==
  /\ mainpc = "loop"
  /\ ~(i < Len(downloadUrls))
  /\ IF env.program = "combined" /\ autoUnzip
     THEN /\ mainpc' = "scan"
          /\ pc' = <<>>
          /\ attempt' = <<>>
          /\ res' = <<>>
          /\ gets' = <<>>
          /\ fails' = <<>>
          /\ UNCHANGED <<exitCode, exitVia>>
     ELSE /\ Decide
          /\ UNCHANGED dlitem
  /\ log' = WithFailureReport(Append(log, Summary("download", total, completed, failed,
                                                   TotalBytes(results), 0)),
                              "download", DownloadFailureLines(results))
  /\ WriteConsole
  /\ UNCHANGED <<env, run, prev, cfgvars, dlmain, xmain, xitem, disk>>

----------------------------------------------------------------------------
(* downloadFile(url, attempt)                                              *)

\* faulty variant: a skipped download reported with the length of its file
SuccessWithFileSize(k, bytes, skipped) ==
  [item |-> k, success |-> TRUE, skipped |-> skipped,
   bytes |-> IF skipped THEN fs[FileOf(k)] ELSE bytes,
   url |-> "", fileName |-> FileOf(k), error |-> ""]

\* { success: true, fileName, filePath, skipped: true } and
\* { success: true, fileName, filePath, bytes: downloadedBytes }
Success(k, bytes, skipped) ==
  [item |-> k, success |-> TRUE, skipped |-> skipped, bytes |-> bytes,
   url |-> "", fileName |-> FileOf(k), error |-> ""]

\* faulty variant: a catch block that logs and returns nothing
FailureUndefined(k, message) == NoRes

Failure(k, message) ==
  [item |-> k, success |-> FALSE, skipped |-> FALSE, bytes |-> 0,
   url |-> downloadUrls[k], fileName |-> <<>>, error |-> message]

\* faulty variant: attempt <= this.retryAttempts
MayRetryInclusive(a, r) == a <= r

\* if (attempt < this.retryAttempts)
MayRetry(a, r) == a < r

\* faulty variant: one retry budget for the run, the failed attempts of the
\* other items counted against it
CatchSharedBudget(k, message) ==
  /\ fails' = [fails EXCEPT ![k] = @ + 1]
  /\ IF MayRetry(attempt[k] + Cardinality({o \in DOMAIN fails \ {k} : fails[o] > 0}),
                 retryAttempts)
     THEN /\ pc' = [pc EXCEPT ![k] = "delay"]
          /\ res' = res
     ELSE /\ pc' = [pc EXCEPT ![k] = "done"]
          /\ res' = [res EXCEPT ![k] = Failure(k, message)]

\* the catch block of downloadFile
Catch(k, message) ==
  /\ fails' = [fails EXCEPT ![k] = @ + 1]
  /\ IF MayRetry(attempt[k], retryAttempts)
     THEN /\ pc' = [pc EXCEPT ![k] = "delay"]
          /\ res' = res
     ELSE /\ pc' = [pc EXCEPT ![k] = "done"]
          /\ res' = [res EXCEPT ![k] = Failure(k, message)]

notdl == <<env, run, prev, log, console, proc, cfgvars, dlmain, xmain, xitem, src, dest>>

\* axios.head rejected (network error, timeout, non-2xx), or getFileName threw
HeadFail(k) ==
  /\ Running
  /\ pc[k] = "head"
  /\ Catch(k, "HEAD failed")
  /\ UNCHANGED <<notdl, attempt, gets, fs>>

\* faulty variant: the test without contentLength > 0
IsCompleteAnyLength(size, contentLength) ==
  size # Absent /\ size = contentLength

\* stats.size === contentLength for an existing file and a positive content-length
IsComplete(size, contentLength) ==
  size # Absent /\ contentLength > 0 /\ size = contentLength

\* axios.head resolved; the existence and size check; the GET is issued unless skipped
HeadOk(k) ==
  /\ Running
  /\ pc[k] = "head"
  /\ LET headers == Headers(downloadUrls[k])
         fileName == getFileName(downloadUrls[k], headers)
         contentLength == ContentLengthOf(headers)
     IN IF IsComplete(fs[fileName], contentLength)
        THEN /\ pc' = [pc EXCEPT ![k] = "done"]
             /\ res' = [res EXCEPT ![k] = Success(k, 0, TRUE)]
             /\ gets' = gets
        ELSE /\ pc' = [pc EXCEPT ![k] = "get"]
             /\ res' = res
             /\ gets' = [gets EXCEPT ![k] = gets[k] + 1]
  /\ UNCHANGED <<notdl, attempt, fails, fs>>

\* the GET request rejected
GetFail(k) ==
  /\ Running
  /\ pc[k] = "get"
  /\ Catch(k, "GET failed")
  /\ UNCHANGED <<notdl, attempt, gets, fs>>

\* the GET response arrived: fs.createWriteStream(filePath) creates or truncates the file
GetOk(k) ==
  /\ Running
  /\ pc[k] = "get"
  /\ pc' = [pc EXCEPT ![k] = "pipe"]
  /\ fs' = [fs EXCEPT ![FileOf(k)] = 0]
  /\ UNCHANGED <<notdl, attempt, res, gets, fails>>

\* another item of the worklist has opened the same destination in its latest attempt
SharedWrite(k) ==
  \E o \in DOMAIN pc :
     o # k /\ FileOf(o) = FileOf(k) /\ gets[o] > 0 /\ pc[o] # "get"

\* What a stream that wrote n bytes from offset 0 leaves of a file of length cur.
\* Alone, the file was truncated by this stream and ends n bytes long.  With a
\* second stream on the same path the writes interleave with the other stream's
\* truncation: the file ends with the longer of the two, or with what the other
\* stream left when it truncated after this one's last write.
Written(cur, n, shared) ==
  {Max(cur, n)} \cup (IF shared THEN {cur} ELSE {})

\* streamPipeline resolved
PipeOk(k) ==
  /\ Running
  /\ pc[k] = "pipe"
  /\ \E size \in Written(fs[FileOf(k)], BodySize(downloadUrls[k]), SharedWrite(k)) :
        fs' = [fs EXCEPT ![FileOf(k)] = size]
  /\ pc' = [pc EXCEPT ![k] = "done"]
  /\ res' = [res EXCEPT ![k] = Success(k, BodySize(downloadUrls[k]), FALSE)]
  /\ UNCHANGED <<notdl, attempt, gets, fails>>

\* streamPipeline rejected after n bytes
PipeFail(k) ==
  /\ Running
  /\ pc[k] = "pipe"
  /\ \E n \in 0..(BodySize(downloadUrls[k]) - 1) :
     \E size \in Written(fs[FileOf(k)], n, SharedWrite(k)) :
        fs' = [fs EXCEPT ![FileOf(k)] = size]
  /\ Catch(k, "transfer failed")
  /\ UNCHANGED <<notdl, attempt, gets>>

\* faulty variant: the retry resumes at the GET request, without a new probe
DelayDoneResumeGet(k) ==
  /\ Running
  /\ pc[k] = "delay"
  /\ pc' = [pc EXCEPT ![k] = "get"]
  /\ attempt' = [attempt EXCEPT ![k] = attempt[k] + 1]
  /\ gets' = [gets EXCEPT ![k] = 1]
  /\ UNCHANGED <<notdl, res, fails, fs>>

\* faulty variant: one timer for the whole batch, the waits taken in turn
DelayDoneInTurn(k) ==
  /\ Running
  /\ pc[k] = "delay"
  /\ \A o \in DOMAIN pc : o < k => pc[o] # "delay"
  /\ pc' = [pc EXCEPT ![k] = "head"]
  /\ attempt' = [attempt EXCEPT ![k] = attempt[k] + 1]
  /\ gets' = [gets EXCEPT ![k] = 0]
  /\ UNCHANGED <<notdl, res, fails, fs>>

\* the retry delay elapsed: downloadFile(url, attempt + 1)
DelayDone(k) ==
  /\ Running
  /\ pc[k] = "delay"
  /\ pc' = [pc EXCEPT ![k] = "head"]
  /\ attempt' = [attempt EXCEPT ![k] = attempt[k] + 1]
  /\ gets' = [gets EXCEPT ![k] = 0]
  /\ UNCHANGED <<notdl, res, fails, fs>>

----------------------------------------------------------------------------
(* findArchiveFiles, extractAll / extractAllArchives                       *)

\* the source directory is the download directory
UsesDownloadDir == env.program = "combined" /\ env.sameDirs

\* faulty variant: no existence check, and a readdir error read as an empty directory
SourceExistsAlways == TRUE

SourceExists == UsesDownloadDir \/ src.exists

Present(name) ==
  IF UsesDownloadDir
  THEN name \in DOMAIN fs /\ fs[name] # Absent
  ELSE name \in src.files

\* the archives of the source directory in directory order
FoundArchives == SelectSeq(DirOrder, LAMBDA n : Present(n) /\ isSupportedArchive(n))

XNoRes == [item |-> 0, success |-> FALSE, fileName |-> <<>>, sourceFilePath |-> <<>>,
           destinationDir |-> <<>>, extractedFiles |-> 0, extractedSize |-> 0,
           error |-> "pending"]

\* ensureDir(destination) and findArchiveFiles resolved; an empty list returns []
\* to start(), which decides the exit code
ScanOk ==
  /\ mainpc = "scan"
  /\ SourceExists
  /\ LET found == FoundArchives IN
     /\ archiveFiles' = found
     /\ IF Len(found) = 0
        THEN /\ Decide
             /\ log' = Append(log, NothingToDo)
             /\ WriteConsole
             /\ UNCHANGED xitem
        ELSE /\ mainpc' = "xloop"
             /\ xpc' = [k \in 1..Len(found) |-> "idle"]
             /\ xattempt' = [k \in 1..Len(found) |-> 0]
             /\ xres' = [k \in 1..Len(found) |-> XNoRes]
             /\ xstats' = [k \in 1..Len(found) |-> NoStats]
             /\ xfails' = [k \in 1..Len(found) |-> 0]
             /\ UNCHANGED <<exitCode, exitVia, log, console>>
  /\ xi' = 0
  /\ xresults' = <<>>
  /\ UNCHANGED <<env, run, prev, cfgvars, dlmain, dlitem, extractedFiles, failedExtractions,
                 xbatch, xiter, xslices, disk>>

\* ensureDir(destination) rejected, the source directory does not exist, or
\* readdir / stat rejected: the error reaches the catch of start()
ScanFail ==
  /\ mainpc = "scan"
  /\ Exit(1, "fatal")
  /\ log' = Append(log, Fatal("extraction"))
  /\ WriteConsole
  /\ UNCHANGED <<env, run, prev, cfgvars, dlmain, dlitem, xmain, xitem, disk>>

XStartBatch ==
  /\ mainpc = "xloop"
  /\ xi < Len(archiveFiles)
  /\ xiter < MaxIter
  /\ LET b == BatchAt(archiveFiles, xi, concurrentExtractions)
         started == {b[n] : n \in 1..Len(b)}
     IN /\ xbatch' = b
        /\ xslices' = Append(xslices, b)
        /\ xpc' = [k \in DOMAIN xpc |-> IF k \in started THEN "extract" ELSE xpc[k]]
        /\ xattempt' = [k \in DOMAIN xpc |-> IF k \in started THEN 1 ELSE xattempt[k]]
  /\ xiter' = xiter + 1
  /\ mainpc' = "xawait"
  /\ UNCHANGED <<env, run, prev, log, console, exitCode, exitVia, cfgvars, dlmain, dlitem, archiveFiles,
                 extractedFiles, failedExtractions, xi, xresults, xres, xstats, xfails,
                 disk>>

XJoinBatch ==
  /\ mainpc = "xawait"
  /\ BatchSettled(xbatch, xpc)
  /\ LET batchResults == PromiseAll(xbatch, xres) IN
     /\ xresults' = xresults \o batchResults
     /\ extractedFiles' = extractedFiles + CountSucceeded(batchResults)
     /\ failedExtractions' = failedExtractions + CountFailed(batchResults)
  /\ log' = Append(log, Progress("extraction", extractedFiles', Len(archiveFiles),
                                 failedExtractions'))
  /\ WriteConsole
  /\ xi' = NextIndex(xi, concurrentExtractions)
  /\ xbatch' = <<>>
  /\ mainpc' = "xloop"
  /\ UNCHANGED <<env, run, prev, exitCode, exitVia, cfgvars, dlmain, dlitem, archiveFiles,
                 xiter, xslices, xitem, disk>>

\* the loop is left, extractAll returns, start() decides the exit code
FinishExtractions ==
  /\ mainpc = "xloop"
  /\ ~(xi < Len(archiveFiles))
  /\ Decide
  /\ log' = WithFailureReport(Append(log, Summary("extraction", Len(archiveFiles),
                                                   extractedFiles, failedExtractions,
                                                   TotalExtractedSize(xresults),
                                                   TotalExtractedFiles(xresults))),
                              "extraction", ExtractionFailureLines(xresults))
  /\ WriteConsole
  /\ UNCHANGED <<env, run, prev, cfgvars, dlmain, dlitem, xmain, xitem, disk>>

----------------------------------------------------------------------------
(* extractTgzFile(sourceFilePath, destinationDir, attempt)                 *)

\* path.join(destinationDirectory, path.parse(archive.name).name)
DestDirOf(k) == Stem(archiveFiles[k])

XSuccess(k, stats) ==
  [item |-> k, success |-> TRUE, fileName |-> archiveFiles[k],
   sourceFilePath |-> archiveFiles[k], destinationDir |-> DestDirOf(k),
   extractedFiles |-> stats.files, extractedSize |-> stats.size, error |-> ""]

XFailure(k, message) ==
  [item |-> k, success |-> FALSE, fileName |-> <<>>,
   sourceFilePath |-> archiveFiles[k], destinationDir |-> <<>>,
   extractedFiles |-> 0, extractedSize |-> 0, error |-> message]

\* the catch block of extractTgzFile
XCatch(k, message) ==
  /\ xfails' = [xfails EXCEPT ![k] = @ + 1]
  /\ IF MayRetry(xattempt[k], retryAttempts)
     THEN /\ xpc' = [xpc EXCEPT ![k] = "delay"]
          /\ xres' = xres
     ELSE /\ xpc' = [xpc EXCEPT ![k] = "done"]
          /\ xres' = [xres EXCEPT ![k] = XFailure(k, message)]

notx == <<env, run, prev, log, console, proc, cfgvars, dlmain, dlitem, xmain>>

\* fs.ensureDir(destinationDir) or tar.extract rejected (missing or corrupt archive)
ExtractFail(k) ==
  /\ Running
  /\ xpc[k] = "extract"
  /\ XCatch(k, "extract failed")
  /\ UNCHANGED <<notx, xattempt, xstats, disk>>

\* tar.extract resolved: the archive's files are in destinationDir
ExtractOk(k) ==
  /\ Running
  /\ xpc[k] = "extract"
  /\ Present(archiveFiles[k])
  /\ dest' = [dest EXCEPT ![DestDirOf(k)] = @ \cup {archiveFiles[k]}]
  /\ xpc' = [xpc EXCEPT ![k] = "stats"]
  /\ UNCHANGED <<notx, xattempt, xres, xstats, xfails, fs, src>>

\* getDirectoryStats(dirPath) when it read n of the files under dirPath: a
\* readdir or stat error is logged and the walk returns what it had counted
DirectoryStats(n) == [files |-> n, size |-> n * ArchiveBytes]

\* faulty variant: the source removed without a look at the delete flag
StatsDoneThenRemove(k) ==
  /\ Running
  /\ xpc[k] = "stats"
  /\ \E n \in 0..Cardinality(dest[DestDirOf(k)]) :
       /\ xpc' = [xpc EXCEPT ![k] = "remove"]
       /\ xstats' = [xstats EXCEPT ![k] = DirectoryStats(n)]
       /\ xres' = xres
  /\ UNCHANGED <<notx, xattempt, xfails, disk>>

\* getDirectoryStats resolved (it never rejects); without the delete flag the
\* call returns its Success
StatsDone(k) ==
  /\ Running
  /\ xpc[k] = "stats"
  /\ \E n \in 0..Cardinality(dest[DestDirOf(k)]) :
       LET stats == DirectoryStats(n) IN
       IF deleteAfterUnzip
       THEN /\ xpc' = [xpc EXCEPT ![k] = "remove"]
            /\ xstats' = [xstats EXCEPT ![k] = stats]
            /\ xres' = xres
       ELSE /\ xpc' = [xpc EXCEPT ![k] = "done"]
            /\ xstats' = xstats
            /\ xres' = [xres EXCEPT ![k] = XSuccess(k, stats)]
  /\ UNCHANGED <<notx, xattempt, xfails, disk>>

\* fs.remove(sourceFilePath) resolved
RemoveOk(k) ==
  /\ Running
  /\ xpc[k] = "remove"
  /\ IF UsesDownloadDir
     THEN /\ fs' = [fs EXCEPT ![archiveFiles[k]] = Absent]
          /\ src' = src
     ELSE /\ src' = [src EXCEPT !.files = @ \ {archiveFiles[k]}]
          /\ fs' = fs
  /\ xpc' = [xpc EXCEPT ![k] = "done"]
  /\ xres' = [xres EXCEPT ![k] = XSuccess(k, xstats[k])]
  /\ UNCHANGED <<notx, xattempt, xstats, xfails, dest>>

\* faulty variant: the rejection of fs.remove is swallowed and the call succeeds
RemoveFailSwallowed(k) ==
  /\ Running
  /\ xpc[k] = "remove"
  /\ xpc' = [xpc EXCEPT ![k] = "done"]
  /\ xres' = [xres EXCEPT ![k] = XSuccess(k, xstats[k])]
  /\ UNCHANGED <<notx, xattempt, xstats, xfails, disk>>

\* fs.remove(sourceFilePath) rejected
RemoveFail(k) ==
  /\ Running
  /\ xpc[k] = "remove"
  /\ XCatch(k, "remove failed")
  /\ UNCHANGED <<notx, xattempt, xstats, disk>>

\* the retry delay elapsed: extractTgzFile(sourceFilePath, destinationDir, attempt + 1)
XDelayDone(k) ==
  /\ Running
  /\ xpc[k] = "delay"
  /\ xpc' = [xpc EXCEPT ![k] = "extract"]
  /\ xattempt' = [xattempt EXCEPT ![k] = xattempt[k] + 1]
  /\ UNCHANGED <<notx, xres, xstats, xfails, disk>>

----------------------------------------------------------------------------
(* Signals and the next invocation                                         *)

\* faulty variant: a handler that lets the operations in flight finish first
SignalWhenIdle ==
  /\ mainpc \notin {"ctor", "exited"}
  /\ \A k \in DOMAIN pc : pc[k] \in {"idle", "done"}
  /\ \A k \in DOMAIN xpc : xpc[k] \in {"idle", "done"}
  /\ Exit(0, "signal")
  /\ batch' = <<>>
  /\ pc' = <<>>
  /\ attempt' = <<>>
  /\ res' = <<>>
  /\ gets' = <<>>
  /\ fails' = <<>>
  /\ xbatch' = <<>>
  /\ xpc' = <<>>
  /\ xattempt' = <<>>
  /\ xres' = <<>>
  /\ xstats' = <<>>
  /\ xfails' = <<>>
  /\ UNCHANGED <<env, run, prev, log, console, cfgvars, downloadUrls, completed, failed, total, i,
                 results, iter, slices, archiveFiles, extractedFiles, failedExtractions, xi,
                 xresults, xiter, xslices, disk>>

\* SIGINT or SIGTERM: the handler calls process.exit(0).  The pending promises
\* die with the process.
Signal ==
  /\ mainpc \notin {"ctor", "exited"}
  /\ Exit(0, "signal")
  /\ batch' = <<>>
  /\ pc' = <<>>
  /\ attempt' = <<>>
  /\ res' = <<>>
  /\ gets' = <<>>
  /\ fails' = <<>>
  /\ xbatch' = <<>>
  /\ xpc' = <<>>
  /\ xattempt' = <<>>
  /\ xres' = <<>>
  /\ xstats' = <<>>
  /\ xfails' = <<>>
  /\ UNCHANGED <<env, run, prev, log, console, cfgvars, downloadUrls, completed, failed, total, i, results,
                 iter, slices, archiveFiles, extractedFiles, failedExtractions, xi,
                 xresults, xiter, xslices, disk>>

\* the program is invoked again with the same arguments on the same directories
Restart ==
  /\ mainpc = "exited"
  /\ run < MaxRuns
  /\ run' = run + 1
  /\ mainpc' = "ctor"
  /\ exitCode' = NoExit
  /\ exitVia' = "none"
  /\ concurrentDownloads' = 0
  /\ retryAttempts' = 0
  /\ concurrentExtractions' = 0
  /\ deleteAfterUnzip' = FALSE
  /\ autoUnzip' = FALSE
  /\ downloadUrls' = <<>>
  /\ completed' = 0
  /\ failed' = 0
  /\ total' = 0
  /\ i' = 0
  /\ batch' = <<>>
  /\ results' = <<>>
  /\ iter' = 0
  /\ slices' = <<>>
  /\ pc' = <<>>
  /\ attempt' = <<>>
  /\ res' = <<>>
  /\ gets' = <<>>
  /\ fails' = <<>>
  /\ archiveFiles' = <<>>
  /\ extractedFiles' = 0
  /\ failedExtractions' = 0
  /\ xi' = 0
  /\ xbatch' = <<>>
  /\ xresults' = <<>>
  /\ xiter' = 0
  /\ xslices' = <<>>
  /\ xpc' = <<>>
  /\ xattempt' = <<>>
  /\ xres' = <<>>
  /\ xstats' = <<>>
  /\ xfails' = <<>>
  /\ log' = <<>>
  /\ console' = <<>>
  /\ prev' = {downloadUrls[results[n].item] : n \in {m \in 1..Len(results) : results[m].success}}
  /\ UNCHANGED <<env, disk>>

----------------------------------------------------------------------------
Next ==
  \/ ConstructDownloader
  \/ ConstructExtractor
  \/ EnsureDirOk
  \/ EnsureDirFail
  \/ StartBatch
  \/ \E k \in DOMAIN pc : HeadFail(k)
  \/ \E k \in DOMAIN pc : HeadOk(k)
  \/ \E k \in DOMAIN pc : GetFail(k)
  \/ \E k \in DOMAIN pc : GetOk(k)
  \/ \E k \in DOMAIN pc : PipeOk(k)
  \/ \E k \in DOMAIN pc : PipeFail(k)
  \/ \E k \in DOMAIN pc : DelayDone(k)
  \/ JoinBatch
  \/ FinishDownloads
  \/ ScanOk
  \/ ScanFail
  \/ XStartBatch
  \/ \E k \in DOMAIN xpc : ExtractFail(k)
  \/ \E k \in DOMAIN xpc : ExtractOk(k)
  \/ \E k \in DOMAIN xpc : StatsDone(k)
  \/ \E k \in DOMAIN xpc : RemoveOk(k)
  \/ \E k \in DOMAIN xpc : RemoveFail(k)
  \/ \E k \in DOMAIN xpc : XDelayDone(k)
  \/ XJoinBatch
  \/ FinishExtractions
  \/ Signal

Spec == Init /\ [][Next]_vars

\* a step of the program itself: every step but the arrival of a signal
ProgramStep ==
  \/ ConstructDownloader
  \/ ConstructExtractor
  \/ EnsureDirOk
  \/ EnsureDirFail
  \/ StartBatch
  \/ \E k \in DOMAIN pc : HeadFail(k) \/ HeadOk(k) \/ GetFail(k) \/ GetOk(k)
  \/ \E k \in DOMAIN pc : PipeOk(k) \/ PipeFail(k) \/ DelayDone(k)
  \/ JoinBatch
  \/ FinishDownloads
  \/ ScanOk
  \/ ScanFail
  \/ XStartBatch
  \/ \E k \in DOMAIN xpc : ExtractFail(k) \/ ExtractOk(k) \/ StatsDone(k)
  \/ \E k \in DOMAIN xpc : RemoveOk(k) \/ RemoveFail(k) \/ XDelayDone(k)
  \/ XJoinBatch
  \/ FinishExtractions

\* Every request, transfer, unpacking and timer comes to an end, and the event
\* loop runs what is ready: the program does not stay for ever in a state in
\* which it can take a step.  No signal has to arrive.
FairSpec == Init /\ [][Next]_vars /\ WF_vars(ProgramStep)

----------------------------------------------------------------------------
(* downloader.js invoked again and again on the same download directory    *)

InitRerun ==
  InitWith(DownloaderEnvs({NaN, <<1>>}, {<<1>>, <<2>>}, MaxItems - 1), MaxItems)

NextRerun ==
  \/ ConstructDownloader
  \/ EnsureDirOk
  \/ EnsureDirFail
  \/ StartBatch
  \/ \E k \in DOMAIN pc : HeadFail(k)
  \/ \E k \in DOMAIN pc : HeadOk(k)
  \/ \E k \in DOMAIN pc : GetFail(k)
  \/ \E k \in DOMAIN pc : GetOk(k)
  \/ \E k \in DOMAIN pc : PipeOk(k)
  \/ \E k \in DOMAIN pc : PipeFail(k)
  \/ \E k \in DOMAIN pc : DelayDone(k)
  \/ JoinBatch
  \/ FinishDownloads
  \/ Signal
  \/ Restart

SpecRerun == InitRerun /\ [][NextRerun]_vars

----------------------------------------------------------------------------
(* The programs run under each setting of LOG_LEVEL                        *)

\* unset, the three levels, and a name that is none of them
LogLevels == {"", "error", "warn", "info", "debug"}

InitLog ==
  InitWith({[e EXCEPT !.LOG_LEVEL = t] :
              e \in DownloaderEnvs({NaN}, {<<1>>, <<2>>}, MaxItems - 2)
                       \cup ExtractorEnvs({NaN}, {<<2>>}),
              t \in LogLevels},
           MaxItems - 1)

SpecLog == InitLog /\ [][Next]_vars

----------------------------------------------------------------------------
(* Properties                                                              *)

\* position x occurs in the slice b
InSlice(b, x) == \E q \in 1..Len(b) : b[q] = x

\* the operations that have started and have not reached their outcome
InFlight == {k \in DOMAIN pc : pc[k] \in {"head", "get", "pipe", "delay"}}
XInFlight == {k \in DOMAIN xpc : xpc[k] \in {"extract", "stats", "remove", "delay"}}

\* the Failure outcomes recorded by the runs of the two loops
RecordedFailures ==
  Cardinality({n \in 1..Len(results) : ~results[n].success})
  + Cardinality({n \in 1..Len(xresults) : ~xresults[n].success})

\* C1: with a positive batch size the result list of downloadAll and of
\* extractAll is, at every moment, the outcomes of the first items of the
\* worklist in input order, whatever the order in which the items of a batch
\* completed, and when the loop is left it has exactly one entry per item.
C1_ResultsInInputOrder ==
  /\ concurrentDownloads > 0 =>
       /\ \A n \in 1..Len(results) :
            /\ n <= Len(downloadUrls)
            /\ results[n].item = n
            /\ IF results[n].success
               THEN results[n].fileName = FileOf(n)
               ELSE results[n].url = downloadUrls[n]
       /\ ~(i < Len(downloadUrls)) => Len(results) = Len(downloadUrls)
  /\ concurrentExtractions > 0 =>
       /\ \A n \in 1..Len(xresults) :
            /\ n <= Len(archiveFiles)
            /\ xresults[n].item = n
            /\ xresults[n].sourceFilePath = archiveFiles[n]
       /\ ~(xi < Len(archiveFiles)) => Len(xresults) = Len(archiveFiles)

\* a run of three downloads has returned: in the first batch the first item
\* succeeded at its second attempt and the second at once, the third item failed
C1_Witness ==
  /\ exitVia = "start"
  /\ concurrentDownloads = 2
  /\ Len(results) = 3
  /\ DOMAIN pc = 1..3
  /\ results[1].success /\ attempt[1] = 2
  /\ results[2].success /\ attempt[2] = 1
  /\ ~results[3].success

\* C2: batches are a barrier: while an item of a later batch has started, every
\* item of every earlier batch has its terminal outcome, a Success or a Failure
\* after its last permitted attempt.
C2_BatchBarrier ==
  /\ \A m \in 1..Len(slices), n \in 1..Len(slices) :
       \A j \in DOMAIN pc, k \in DOMAIN pc :
          (m < n /\ InSlice(slices[m], j) /\ InSlice(slices[n], k) /\ attempt[k] >= 1) =>
             /\ pc[j] = "done"
             /\ res[j].success \/ attempt[j] >= retryAttempts
  /\ \A m \in 1..Len(xslices), n \in 1..Len(xslices) :
       \A j \in DOMAIN xpc, k \in DOMAIN xpc :
          (m < n /\ InSlice(xslices[m], j) /\ InSlice(xslices[n], k) /\ xattempt[k] >= 1) =>
             /\ xpc[j] = "done"
             /\ xres[j].success \/ xattempt[j] >= retryAttempts

\* the third download is in flight in the second batch; in the first batch one
\* item finished at once and the slowest one needed a retry
C2_Witness ==
  /\ slices = << <<1, 2>>, <<3>> >>
  /\ DOMAIN pc = 1..3
  /\ pc[3] \in {"head", "get", "pipe", "delay"}
  /\ attempt[1] = 1
  /\ attempt[2] = 2

\* C3: the operations that have started and have no outcome yet, those waiting
\* in a retry delay included, are never more than the configured concurrency
\* limit (stated for the states in which some operation is in flight).
C3_InFlightWithinLimit ==
  /\ InFlight # {} => Cardinality(InFlight) <= concurrentDownloads
  /\ XInFlight # {} => Cardinality(XInFlight) <= concurrentExtractions

\* C4: an error at any step of downloadFile or extractTgzFile ends as the
\* item's own outcome: every resolved operation holds a Success or a Failure
\* naming its item, every entry of the result lists is such an outcome, the
\* only errors that reach the catch of start() come from the directory steps
\* before a loop, and a run that recorded failures still has an outcome for
\* every item.
C4_ErrorsBecomeOutcomes ==
  /\ \A k \in DOMAIN pc : pc[k] = "done" =>
        /\ res[k].item = k
        /\ \/ res[k].success /\ res[k].error = ""
           \/ /\ ~res[k].success
              /\ res[k].url = downloadUrls[k]
              /\ res[k].error \in {"HEAD failed", "GET failed", "transfer failed"}
  /\ \A k \in DOMAIN xpc : xpc[k] = "done" =>
        /\ xres[k].item = k
        /\ \/ xres[k].success /\ xres[k].error = ""
           \/ /\ ~xres[k].success
              /\ xres[k].sourceFilePath = archiveFiles[k]
              /\ xres[k].error \in {"extract failed", "remove failed"}
  /\ \A n \in 1..Len(results) : results[n].error # "pending"
  /\ \A n \in 1..Len(xresults) : xresults[n].error # "pending"
  /\ exitVia = "fatal" => xiter = 0 /\ (iter = 0 \/ ~(i < Len(downloadUrls)))
  /\ (exitVia = "start" /\ failed > 0 /\ concurrentDownloads > 0) =>
        Len(results) = Len(downloadUrls)
  /\ (exitVia = "start" /\ failedExtractions > 0 /\ concurrentExtractions > 0) =>
        Len(xresults) = Len(archiveFiles)

\* the first download failed for good; its sibling in the batch and the item of
\* the next batch were attempted and succeeded
C4_Witness ==
  /\ exitVia = "start"
  /\ concurrentDownloads = 2
  /\ Len(results) = 3
  /\ ~results[1].success
  /\ results[2].success
  /\ results[3].success

\* the value RETRY_ATTEMPTS asks for: the default when it is unset or not a number
ConfiguredRetryAttempts ==
  IF env.RETRY_ATTEMPTS = NaN THEN DefaultRetryAttempts ELSE env.RETRY_ATTEMPTS[1]

\* C5 as stated: for every configured number R >= 0 of retry attempts, an
\* item whose every attempt fails is attempted exactly R times and then yields
\* a Failure, and no item is attempted more than R times.
C5_ExactlyConfiguredAttempts ==
  ConfiguredRetryAttempts >= 0 =>
    /\ \A k \in DOMAIN pc :
         /\ attempt[k] <= ConfiguredRetryAttempts
         /\ (pc[k] = "done" /\ ~res[k].success) => attempt[k] = ConfiguredRetryAttempts
    /\ \A k \in DOMAIN xpc :
         /\ xattempt[k] <= ConfiguredRetryAttempts
         /\ (xpc[k] = "done" /\ ~xres[k].success) => xattempt[k] = ConfiguredRetryAttempts

\* C5 amended: a configured value of 0 is not kept, the constructor
\* replaces it (as an unset value) by the default 3; for every retryAttempts
\* R >= 1 an item whose every attempt fails is attempted exactly R times and
\* then yields a Failure, and no item is attempted more than R times.
C5_RetryBound ==
  /\ (mainpc # "ctor" /\ exitVia # "help") =>
        retryAttempts = IF env.RETRY_ATTEMPTS \in {NaN, <<0>>}
                        THEN DefaultRetryAttempts
                        ELSE env.RETRY_ATTEMPTS[1]
  /\ retryAttempts >= 1 =>
       /\ \A k \in DOMAIN pc :
            /\ attempt[k] <= retryAttempts
            /\ (pc[k] = "done" /\ ~res[k].success) =>
                  attempt[k] = retryAttempts /\ fails[k] = retryAttempts
       /\ \A k \in DOMAIN xpc :
            /\ xattempt[k] <= retryAttempts
            /\ (xpc[k] = "done" /\ ~xres[k].success) =>
                  xattempt[k] = retryAttempts /\ xfails[k] = retryAttempts

\* with RETRY_ATTEMPTS=2 a download failed at both of its attempts and holds
\* its Failure
C5_Witness ==
  /\ env.RETRY_ATTEMPTS = <<2>>
  /\ \E k \in DOMAIN pc :
       pc[k] = "done" /\ ~res[k].success /\ attempt[k] = 2 /\ fails[k] = 2

\* C6: an item whose first k < retryAttempts attempts fail and whose next
\* attempt succeeds holds a Success after exactly k+1 attempts, and the counters
\* of failed items count the Failure outcomes only, not the failed attempts.
C6_SuccessAfterRetries ==
  /\ \A k \in DOMAIN pc :
       (pc[k] = "done" /\ res[k].success) =>
          /\ attempt[k] = fails[k] + 1
          /\ fails[k] < Max(retryAttempts, 1)
  /\ \A k \in DOMAIN xpc :
       (xpc[k] = "done" /\ xres[k].success) =>
          /\ xattempt[k] = xfails[k] + 1
          /\ xfails[k] < Max(retryAttempts, 1)
  /\ failed = Cardinality({n \in 1..Len(results) : ~results[n].success})
  /\ completed = Cardinality({n \in 1..Len(results) : results[n].success})
  /\ failedExtractions = Cardinality({n \in 1..Len(xresults) : ~xresults[n].success})
  /\ extractedFiles = Cardinality({n \in 1..Len(xresults) : xresults[n].success})

\* a download that failed twice and succeeded at its third attempt has been
\* counted: one completed, none failed
C6_Witness ==
  /\ Len(results) = 1
  /\ DOMAIN pc = {1}
  /\ results[1].success
  /\ fails[1] = 2
  /\ attempt[1] = 3
  /\ completed = 1
  /\ failed = 0

\* C7: an attempt whose probe was answered returns skipped, with no GET and
\* no write, exactly when the destination exists, the probed content-length is
\* positive and the size of the file equals it; in every other case it issues
\* one GET, whose response truncates the file.
C7_SkipRule ==
  [][\A k \in DOMAIN pc :
       /\ ( /\ pc[k] = "head"
            /\ k \in DOMAIN pc'
            /\ \/ pc'[k] = "get"
               \/ pc'[k] = "done" /\ res'[k].success )
          => LET url == downloadUrls[k]
                 size == fs[FileOf(k)]
                 probed == IF Headers(url).contentLength = NaN
                           THEN 0 ELSE Headers(url).contentLength[1]
             IN IF size # Absent /\ probed > 0 /\ size = probed
                THEN /\ pc'[k] = "done"
                     /\ res'[k].skipped
                     /\ res'[k].bytes = 0
                     /\ gets'[k] = 0
                     /\ fs' = fs
                ELSE /\ pc'[k] = "get"
                     /\ gets'[k] = 1
                     /\ fs' = fs
       /\ (pc[k] = "get" /\ k \in DOMAIN pc' /\ pc'[k] = "pipe") => fs'[FileOf(k)] = 0
    ]_vars

\* a download was skipped because its file was there with the probed length
C7_Witness ==
  \E k \in DOMAIN pc :
     /\ pc[k] = "done"
     /\ res[k].skipped
     /\ gets[k] = 0
     /\ fs[FileOf(k)] = 2

\* item k is the only item of the worklist with its destination
OwnDestination(k) == \A o \in DOMAIN pc : o # k => FileOf(o) # FileOf(k)

C9_ZeroIffNoFailures ==
  mainpc = "exited" =>
    (exitCode = 0 <=> (exitVia \in {"start", "help"} /\ RecordedFailures = 0))

\* C9 amended: when start() decides, the exit code is 0 exactly when no
\* Failure outcome was recorded in the pipelines that ran, else 1; a usage or
\* fatal error exits with 1; SIGINT, SIGTERM and --help exit with 0, a signal
\* also when failures were recorded or work was left undone.
C9_ExitCode ==
  mainpc = "exited" =>
    CASE exitVia = "start" -> exitCode = (IF RecordedFailures = 0 THEN 0 ELSE 1)
      [] exitVia \in {"usage", "fatal"} -> exitCode = 1
      [] exitVia \in {"signal", "help"} -> exitCode = 0
      [] OTHER -> FALSE

\* a signal ended the process with code 0 after a failed download was recorded
C9_Witness ==
  /\ mainpc = "exited"
  /\ exitVia = "signal"
  /\ exitCode = 0
  /\ failed > 0
  /\ RecordedFailures > 0

\* C10: with a positive batch size B the batches are the contiguous slices
\* of the worklist in input order, each of B items except the last, which has
\* between 1 and B, and a loop that is left has run ceil(length / B) batches.
C10_Partition ==
  /\ concurrentDownloads > 0 =>
       LET B == concurrentDownloads
           L == Len(downloadUrls)
       IN /\ iter = Len(slices)
          /\ \A n \in 1..Len(slices) :
               /\ slices[n] = [q \in 1..Min(B, L - (n - 1) * B) |-> (n - 1) * B + q]
               /\ Len(slices[n]) \in 1..B
               /\ n < Len(slices) => Len(slices[n]) = B
          /\ ~(i < L) => Len(slices) = (L + B - 1) \div B
  /\ concurrentExtractions > 0 =>
       LET B == concurrentExtractions
           L == Len(archiveFiles)
       IN /\ xiter = Len(xslices)
          /\ \A n \in 1..Len(xslices) :
               /\ xslices[n] = [q \in 1..Min(B, L - (n - 1) * B) |-> (n - 1) * B + q]
               /\ Len(xslices[n]) \in 1..B
               /\ n < Len(xslices) => Len(xslices[n]) = B
          /\ ~(xi < L) => Len(xslices) = (L + B - 1) \div B

\* three downloads with a batch size of two have run as a batch of two and a
\* batch of one
C10_Witness ==
  /\ exitVia = "start"
  /\ concurrentDownloads = 2
  /\ Len(downloadUrls) = 3
  /\ slices = << <<1, 2>>, <<3>> >>

RECURSIVE SumOf(_, _)
\* f[1] + .. + f[n]
SumOf(f, n) == IF n = 0 THEN 0 ELSE f[n] + SumOf(f, n - 1)

\* the progress lines and the summary lines one loop has logged
ProgressOf(pipeline) ==
  SelectSeq(log, LAMBDA e : e.kind = "progress" /\ e.pipeline = pipeline)
SummaryOf(pipeline) ==
  SelectSeq(log, LAMBDA e : e.kind = "summary" /\ e.pipeline = pipeline)

\* C11: the summary of a completed loop reports succeeded + failed = total,
\* with total the length of the worklist, and a total of bytes that is the sum
\* of the sizes of the Success outcomes only.
C11_SummaryArithmetic ==
  /\ \A n \in 1..Len(SummaryOf("download")) :
       LET e == SummaryOf("download")[n] IN
       /\ e.done + e.failed = e.total
       /\ e.total = Len(downloadUrls)
       /\ e.done = Cardinality({m \in 1..Len(results) : results[m].success})
       /\ e.bytes = SumOf([m \in 1..Len(results) |->
                             IF results[m].success THEN results[m].bytes ELSE 0],
                          Len(results))
  /\ \A n \in 1..Len(SummaryOf("extraction")) :
       LET e == SummaryOf("extraction")[n] IN
       /\ e.done + e.failed = e.total
       /\ e.total = Len(archiveFiles)
       /\ e.done = Cardinality({m \in 1..Len(xresults) : xresults[m].success})
       /\ e.bytes = SumOf([m \in 1..Len(xresults) |->
                             IF xresults[m].success THEN xresults[m].extractedSize ELSE 0],
                          Len(xresults))
       /\ e.files = SumOf([m \in 1..Len(xresults) |->
                             IF xresults[m].success THEN xresults[m].extractedFiles ELSE 0],
                          Len(xresults))

\* the summary of three downloads: the first two transferred 2 and 1 bytes, the
\* third failed
C11_Witness ==
  /\ Len(results) = 3
  /\ results[1].success /\ results[1].bytes = 2
  /\ results[2].success /\ results[2].bytes = 1
  /\ ~results[3].success
  /\ Len(SummaryOf("download")) = 1
  /\ SummaryOf("download")[1] = Summary("download", 3, 2, 1, 3, 0)

\* C12: each terminal outcome is counted exactly once: after the k-th batch
\* the counters add up to the number of items of batches 1..k and to the length
\* of the result list, and each batch has logged exactly one progress line,
\* which carries the counters as updated for that batch.
C12_CountersPerBatch ==
  /\ LET P == ProgressOf("download") IN
     /\ Len(P) \in {iter - 1, iter}
     /\ mainpc \in {"loop", "scan", "xloop", "xawait"} => Len(P) = iter
     /\ Len(P) <= Len(slices)
     /\ completed + failed = Len(results)
     /\ Len(results) = SumOf([m \in 1..Len(P) |-> Len(slices[m])], Len(P))
     /\ \A k \in 1..Len(P) :
          /\ P[k].done + P[k].failed = SumOf([m \in 1..k |-> Len(slices[m])], k)
          /\ P[k].total = Len(downloadUrls)
     /\ Len(P) > 0 => P[Len(P)].done = completed /\ P[Len(P)].failed = failed
  /\ LET P == ProgressOf("extraction") IN
     /\ Len(P) \in {xiter - 1, xiter}
     /\ mainpc = "xloop" => Len(P) = xiter
     /\ Len(P) <= Len(xslices)
     /\ extractedFiles + failedExtractions = Len(xresults)
     /\ Len(xresults) = SumOf([m \in 1..Len(P) |-> Len(xslices[m])], Len(P))
     /\ \A k \in 1..Len(P) :
          /\ P[k].done + P[k].failed = SumOf([m \in 1..k |-> Len(xslices[m])], k)
          /\ P[k].total = Len(archiveFiles)
     /\ Len(P) > 0 =>
          P[Len(P)].done = extractedFiles /\ P[Len(P)].failed = failedExtractions

\* two batches of downloads are done: the first logged 2/3 completed, 0 failed
\* and the second 2/3 completed, 1 failed
C12_Witness ==
  /\ mainpc = "loop"
  /\ slices = << <<1, 2>>, <<3>> >>
  /\ ProgressOf("download") =
       << Progress("download", 2, 3, 0), Progress("download", 2, 3, 1) >>

\* C13: the downloads that hold an open write stream at the same time have
\* pairwise distinct destination paths, for every worklist, duplicate URLs
\* included.
C13_DistinctDestinations ==
  \A j \in DOMAIN pc, k \in DOMAIN pc :
     (j # k /\ pc[j] = "pipe" /\ pc[k] = "pipe") => FileOf(j) # FileOf(k)

\* C14: no two archives of one source directory are extracted into the same
\* subdirectory, and the files an extraction reports are its own archive's only.
C14_OwnSubdirectory ==
  \A k \in DOMAIN xpc :
     (xpc[k] = "done" /\ xres[k].success) =>
        /\ dest[DestDirOf(k)] \subseteq {archiveFiles[k]}
        /\ xres[k].extractedFiles <= 1

\* C15: when archive discovery runs on a source directory that does not
\* exist, the step that leaves it (a signal aside) is the fatal exit with code
\* 1: no batch has run, no extractTgzFile call was made or retried, and the
\* counters are as they were.
C15_StructuralFailure ==
  [][(mainpc = "scan" /\ ~(UsesDownloadDir \/ src.exists)
      /\ mainpc' # "scan" /\ exitVia' # "signal")
       => /\ mainpc' = "exited"
          /\ exitVia' = "fatal"
          /\ exitCode' = 1
          /\ xiter' = 0
          /\ xslices' = <<>>
          /\ xresults' = <<>>
          /\ xattempt' = <<>>
          /\ xfails' = <<>>
          /\ extractedFiles' = extractedFiles
          /\ failedExtractions' = failedExtractions
          /\ dest' = dest
    ]_vars

\* extract-only.js has exited with code 1 on a missing source directory, before
\* any batch
C15_Witness ==
  /\ env.program = "extractor"
  /\ ~src.exists
  /\ mainpc = "exited"
  /\ exitVia = "fatal"
  /\ exitCode = 1
  /\ xiter = 0
  /\ extractedFiles = 0
  /\ failedExtractions = 0

\* C16: whenever the download worklist is empty, the downloader has failed
\* fast: once constructed it is exited with the usage error and a nonzero code,
\* before the download directory is created.
C16_EmptyWorklistFailsFast ==
  (env.program \in {"downloader", "combined"} /\ mainpc # "ctor" /\ Len(env.urls) = 0) =>
     /\ mainpc = "exited"
     /\ exitVia = "usage"
     /\ exitCode # 0

\* C17: a pipeline run on an empty worklist returns at once with no outcome:
\* no batch has run, no counter has changed, and a "nothing to do" message was
\* logged.
C17_EmptyWorklist ==
  /\ ( /\ env.program \in {"downloader", "combined"}
       /\ mainpc = "exited" /\ exitVia = "start"
       /\ Len(downloadUrls) = 0 ) =>
        /\ iter = 0 /\ results = <<>>
        /\ completed = 0 /\ failed = 0
        /\ \E n \in 1..Len(log) : log[n].kind = "nothing"
  /\ ( /\ env.program = "extractor" \/ autoUnzip
       /\ mainpc = "exited" /\ exitVia = "start"
       /\ Len(archiveFiles) = 0 ) =>
        /\ xiter = 0 /\ xresults = <<>>
        /\ extractedFiles = 0 /\ failedExtractions = 0
        /\ \E n \in 1..Len(log) : log[n].kind = "nothing"

\* C18: in every state of a run after the constructor a signal can be
\* handled at once, whatever is in flight; handling it is one step to the exit
\* that starts nothing and changes no counter, result or file; and nothing
\* happens once the process has exited.
C18_SignalExitsAtOnce ==
  [][ /\ mainpc # "exited"
      /\ mainpc # "ctor" => ENABLED Signal
      /\ exitVia' = "signal" =>
           /\ mainpc' = "exited"
           /\ exitCode' = 0
           /\ iter' = iter /\ xiter' = xiter
           /\ slices' = slices /\ xslices' = xslices
           /\ results' = results /\ xresults' = xresults
           /\ completed' = completed /\ failed' = failed
           /\ extractedFiles' = extractedFiles /\ failedExtractions' = failedExtractions
           /\ log' = log
           /\ UNCHANGED disk
    ]_vars

\* a signal ended the process while the two downloads of the first batch were
\* in flight: the batch was never joined
C18_Witness ==
  /\ mainpc = "exited"
  /\ exitVia = "signal"
  /\ Len(slices) = 1
  /\ Len(slices[1]) = 2
  /\ Len(results) = 0
  /\ ProgressOf("download") = <<>>

C20_EveryStepErrorFails ==
  [][\A k \in DOMAIN xpc :
       (xpc[k] = "stats" /\ k \in DOMAIN xpc' /\ xpc'[k] # "stats") =>
          IF xpc'[k] = "remove"
          THEN xstats'[k].files = Cardinality(dest[DestDirOf(k)])
          ELSE xpc'[k] = "done" /\ xres'[k].success =>
                  xres'[k].extractedFiles = Cardinality(dest[DestDirOf(k)])
    ]_vars

\* C20 amended: an error while creating the destination directory,
\* unpacking the archive or deleting the source archive makes the attempt fail:
\* it is retried while attempt < retryAttempts and otherwise yields a Failure.
\* An error during the walk that counts the destination directory does not: it
\* is logged and the attempt goes on with what was counted.  A Success is
\* returned only when the archive was unpacked and, with delete-after-extract,
\* its source removed.
C20_StepErrors ==
  [][\A k \in DOMAIN xpc :
       k \in DOMAIN xpc' =>
         /\ xfails'[k] # xfails[k] =>
              /\ xpc[k] \in {"extract", "remove"}
              /\ xfails'[k] = xfails[k] + 1
              /\ xattempt'[k] = xattempt[k]
              /\ IF xattempt[k] < retryAttempts
                 THEN xpc'[k] = "delay" /\ xres'[k] = xres[k]
                 ELSE xpc'[k] = "done" /\ ~xres'[k].success
         /\ xpc[k] = "stats" =>
              /\ xfails'[k] = xfails[k]
              /\ xpc'[k] \in {"stats", "remove", "done"}
              /\ xpc'[k] = "done" => xres'[k].success /\ ~deleteAfterUnzip
         /\ (xpc[k] # "done" /\ xpc'[k] = "done" /\ xres'[k].success) =>
              /\ archiveFiles[k] \in dest'[DestDirOf(k)]
              /\ xpc[k] = IF deleteAfterUnzip THEN "remove" ELSE "stats"
              /\ deleteAfterUnzip =>
                   IF UsesDownloadDir THEN fs'[archiveFiles[k]] = Absent
                   ELSE archiveFiles[k] \notin src'.files
    ]_vars

\* with delete-after-extract, an extraction returned its Success at the second
\* attempt, after a first one that failed, although its walk counted no file
C20_Witness ==
  /\ deleteAfterUnzip
  /\ \E k \in DOMAIN xpc :
       /\ xpc[k] = "done"
       /\ xres[k].success
       /\ xfails[k] = 1
       /\ xattempt[k] = 2
       /\ xres[k].extractedFiles = 0
       /\ archiveFiles[k] \in dest[DestDirOf(k)]

\* archive discovery has run in the combined downloader
Scanned ==
  /\ env.program = "combined"
  /\ autoUnzip
  /\ mainpc \in {"xloop", "xawait"} \/ (mainpc = "exited" /\ exitVia = "start")

\* C21: in the combined downloader with AUTO_UNZIP=true, once archive discovery
\* has run, every download that ended in Success and whose file has a supported
\* archive extension is in the worklist of the extraction phase, and when the
\* run ends it has an extraction outcome, whichever directories are configured.
C21_DownloadedArchivesExtracted ==
  Scanned =>
    \A n \in 1..Len(results) :
       (results[n].success /\ isSupportedArchive(results[n].fileName)) =>
          /\ InSlice(archiveFiles, results[n].fileName)
          /\ mainpc = "exited" =>
               \E m \in 1..Len(xresults) :
                  archiveFiles[xresults[m].item] = results[n].fileName

\* C22: the run counters change only in the step of the controlling loop that
\* resumes from Promise.all, when no item of the batch is in flight any more;
\* every step taken while an item is in flight, and every step of an item
\* operation, leaves them as they are.
C22_CountersAtBarrier ==
  [][/\ (completed' # completed \/ failed' # failed) =>
          /\ mainpc = "await" /\ mainpc' = "loop"
          /\ InFlight = {}
          /\ pc' = pc
          /\ Len(results') = Len(results) + Len(batch)
          /\ completed' + failed' = completed + failed + Len(batch)
     /\ (extractedFiles' # extractedFiles \/ failedExtractions' # failedExtractions) =>
          /\ mainpc = "xawait" /\ mainpc' = "xloop"
          /\ XInFlight = {}
          /\ xpc' = xpc
          /\ Len(xresults') = Len(xresults) + Len(xbatch)
          /\ extractedFiles' + failedExtractions' =
               extractedFiles + failedExtractions + Len(xbatch)
     /\ (InFlight # {} \/ XInFlight # {}) =>
          UNCHANGED <<completed, failed, extractedFiles, failedExtractions>>
    ]_vars

\* in a batch of two downloads the second item has returned its Failure and the
\* first is waiting in its retry delay: no counter has moved yet
C22_Witness ==
  /\ mainpc = "await"
  /\ batch = <<1, 2>>
  /\ pc[2] = "done" /\ ~res[2].success
  /\ pc[1] = "delay"
  /\ completed = 0 /\ failed = 0

\* C23: an item starts a further attempt only by leaving its retry delay, and
\* it enters the delay only from an attempt that failed with attempt <
\* retryAttempts, so that one wait lies between two consecutive attempts; the
\* last permitted attempt that fails returns its Failure in the same step, with
\* no wait; and an item in its delay holds back no other item: every other
\* item in flight can take its next step, a sibling in its own delay included.
C23_RetryDelayOrdering ==
  [][/\ \A k \in DOMAIN pc :
          k \in DOMAIN pc' =>
            /\ (attempt[k] >= 1 /\ attempt'[k] # attempt[k]) =>
                 /\ pc[k] = "delay" /\ pc'[k] = "head"
                 /\ attempt'[k] = attempt[k] + 1
            /\ (pc[k] = "delay" /\ pc'[k] # "delay") =>
                 pc'[k] = "head" /\ attempt'[k] = attempt[k] + 1
            /\ (pc[k] # "delay" /\ pc'[k] = "delay") =>
                 /\ fails'[k] = fails[k] + 1
                 /\ attempt[k] < retryAttempts
                 /\ attempt'[k] = attempt[k]
            /\ (fails'[k] # fails[k] /\ ~(attempt[k] < retryAttempts)) =>
                 pc'[k] = "done" /\ ~res'[k].success
            /\ pc[k] = "delay" =>
                 \A j \in DOMAIN pc \ {k} :
                    /\ pc[j] = "delay" => ENABLED DelayDone(j)
                    /\ pc[j] = "head" => ENABLED HeadOk(j) /\ ENABLED HeadFail(j)
                    /\ pc[j] = "get" => ENABLED GetOk(j) /\ ENABLED GetFail(j)
                    /\ pc[j] = "pipe" => ENABLED PipeOk(j) /\ ENABLED PipeFail(j)
     /\ \A k \in DOMAIN xpc :
          k \in DOMAIN xpc' =>
            /\ (xattempt[k] >= 1 /\ xattempt'[k] # xattempt[k]) =>
                 /\ xpc[k] = "delay" /\ xpc'[k] = "extract"
                 /\ xattempt'[k] = xattempt[k] + 1
            /\ (xpc[k] = "delay" /\ xpc'[k] # "delay") =>
                 xpc'[k] = "extract" /\ xattempt'[k] = xattempt[k] + 1
            /\ (xpc[k] # "delay" /\ xpc'[k] = "delay") =>
                 /\ xfails'[k] = xfails[k] + 1
                 /\ xattempt[k] < retryAttempts
                 /\ xattempt'[k] = xattempt[k]
            /\ (xfails'[k] # xfails[k] /\ ~(xattempt[k] < retryAttempts)) =>
                 xpc'[k] = "done" /\ ~xres'[k].success
            /\ xpc[k] = "delay" =>
                 \A j \in DOMAIN xpc \ {k} :
                    /\ xpc[j] = "delay" => ENABLED XDelayDone(j)
                    /\ xpc[j] = "extract" => ENABLED ExtractFail(j)
                    /\ xpc[j] = "stats" => ENABLED StatsDone(j)
    ]_vars

\* two downloads of one batch: the first waits after its first failed attempt
\* while the second, having waited once itself, is transferring in its second
\* attempt
C23_Witness ==
  /\ mainpc = "await"
  /\ batch = <<1, 2>>
  /\ pc[1] = "delay" /\ attempt[1] = 1 /\ fails[1] = 1
  /\ pc[2] = "pipe" /\ attempt[2] = 2 /\ fails[2] = 1

\* the archives of the worklist that are in the source directory
SourcesPresent == {k \in DOMAIN archiveFiles : Present(archiveFiles[k])}

\* C24: a source archive disappears only in the step in which its own
\* extraction, with the delete flag set, completes fs.remove after the unpack
\* and the directory count of the same attempt; every archive whose extraction
\* is under way, is waiting for a retry or has ended in Failure is still in the
\* source directory, and with the flag unset every archive stays there.
C24_DeleteAfterExtract ==
  [][/\ \A k \in DOMAIN archiveFiles :
          (k \in SourcesPresent /\ k \notin SourcesPresent') =>
             /\ deleteAfterUnzip
             /\ xpc[k] = "remove" /\ xpc'[k] = "done" /\ xres'[k].success
             /\ archiveFiles[k] \in dest[DestDirOf(k)]
             /\ xattempt'[k] = xattempt[k]
             /\ SourcesPresent' = SourcesPresent \ {k}
     /\ \A k \in DOMAIN xpc :
          k \in DOMAIN xpc' =>
            /\ (xpc[k] # "remove" /\ xpc'[k] = "remove") =>
                 /\ deleteAfterUnzip
                 /\ xpc[k] = "stats"
                 /\ xattempt'[k] = xattempt[k]
                 /\ archiveFiles[k] \in dest[DestDirOf(k)]
            /\ (xpc'[k] \in {"extract", "stats", "remove", "delay"}) =>
                 k \in SourcesPresent'
            /\ (xpc'[k] = "done" /\ ~xres'[k].success) => k \in SourcesPresent'
            /\ (xpc'[k] = "done" /\ ~deleteAfterUnzip) => k \in SourcesPresent'
    ]_vars

\* with the delete flag set, one archive was extracted and removed while
\* another, whose two attempts failed to unpack, is still in the source directory
C24_Witness ==
  /\ deleteAfterUnzip
  /\ \E k \in DOMAIN xpc, j \in DOMAIN xpc :
       /\ xpc[k] = "done" /\ xres[k].success /\ k \notin SourcesPresent
       /\ xpc[j] = "done" /\ ~xres[j].success /\ xfails[j] = 2
       /\ xres[j].error = "extract failed"
       /\ j \in SourcesPresent

\* the lines of the failure report of a pipeline, none when nothing was reported
FailureReportOf(pipeline) ==
  LET R == SelectSeq(log, LAMBDA e : e.kind = "failures" /\ e.pipeline = pipeline)
  IN IF R = <<>> THEN <<>> ELSE R[1].lines

\* the position in rs of its m-th Failure outcome
NthFailure(rs, m) ==
  CHOOSE n \in 1..Len(rs) :
     ~rs[n].success /\ Cardinality({q \in 1..n : ~rs[q].success}) = m

\* C25: a run with failures ends by its own exit, after a summary; the failure
\* report that goes with a summary has one line for each Failure outcome and no
\* other line, in the order of the worklist, each with the URL or archive path of
\* its item and the error message of that item's last attempt; there is at most
\* one report for a pipeline, and none without a summary.
C25_FailureReport ==
  /\ (mainpc = "exited" /\ exitVia = "start") =>
        \/ SummaryOf("download") # <<>>
        \/ SummaryOf("extraction") # <<>>
        \/ \E n \in 1..Len(log) : log[n].kind = "nothing"
  /\ Len(SelectSeq(log, LAMBDA e : e.kind = "failures" /\ e.pipeline = "download")) <= 1
  /\ Len(SelectSeq(log, LAMBDA e : e.kind = "failures" /\ e.pipeline = "extraction")) <= 1
  /\ IF SummaryOf("download") = <<>>
     THEN FailureReportOf("download") = <<>>
     ELSE LET F == FailureReportOf("download") IN
          /\ Len(F) = Cardinality({n \in 1..Len(results) : ~results[n].success})
          /\ Len(F) = failed
          /\ \A m \in 1..Len(F) :
               LET n == NthFailure(results, m) IN
               /\ F[m].id = downloadUrls[results[n].item]
               /\ F[m].error = results[n].error
               /\ F[m].error \in {"HEAD failed", "GET failed", "transfer failed"}
               /\ \A q \in 1..Len(results) : results[q].success => results[q].item # results[n].item
  /\ IF SummaryOf("extraction") = <<>>
     THEN FailureReportOf("extraction") = <<>>
     ELSE LET F == FailureReportOf("extraction") IN
          /\ Len(F) = Cardinality({n \in 1..Len(xresults) : ~xresults[n].success})
          /\ Len(F) = failedExtractions
          /\ \A m \in 1..Len(F) :
               LET n == NthFailure(xresults, m) IN
               /\ F[m].id = archiveFiles[xresults[n].item]
               /\ F[m].error = xresults[n].error
               /\ F[m].error \in {"extract failed", "remove failed"}

\* the summary of three downloads is out: the first and the third failed, the
\* second succeeded, and the report lists the first and the third in that order
C25_Witness ==
  /\ mainpc = "exited" /\ exitVia = "start" /\ exitCode = 1
  /\ Len(results) = 3
  /\ ~results[1].success /\ results[2].success /\ ~results[3].success
  /\ downloadUrls[1] # downloadUrls[3]
  /\ results[1].error # results[3].error
  /\ FailureReportOf("download") =
       << [id |-> downloadUrls[1], error |-> results[1].error],
          [id |-> downloadUrls[3], error |-> results[3].error] >>

\* the extraction phase of the combined downloader is under way
ExtractionPhase == env.program = "combined" /\ mainpc \in {"scan", "xloop", "xawait"}

\* C26: in the combined downloader with AUTO_UNZIP=true the extraction phase
\* is entered in the step that leaves the download loop after its last batch,
\* with an outcome for every URL and no download in flight, whether or not a
\* download failed; and no step of the extraction phase changes the download
\* counters or the download results.
C26_ExtractionAfterDownloads ==
  [][/\ (env.program = "combined" /\ ~ExtractionPhase /\ ExtractionPhase') =>
          /\ autoUnzip
          /\ mainpc = "loop" /\ mainpc' = "scan"
          /\ ~(i < Len(downloadUrls))
          /\ batch = <<>> /\ InFlight = {}
          /\ Len(results) = Len(downloadUrls)
          /\ completed + failed = total
          /\ xiter = 0 /\ archiveFiles = <<>>
          /\ SummaryOf("download")' # <<>>
     /\ (env.program = "combined" /\ autoUnzip /\ mainpc = "loop" /\ mainpc' \notin {"loop", "await"}
         /\ exitVia' # "signal") =>
          mainpc' = "scan"
     /\ ExtractionPhase =>
          /\ UNCHANGED <<completed, failed, total, results, i, iter, slices, downloadUrls>>
          /\ InFlight' = {}
     /\ (env.program \in {"downloader", "combined"} /\ ~autoUnzip) =>
          mainpc' \notin {"scan", "xloop", "xawait"}
    ]_vars

\* the first batch of extractions is running after a download phase of two
\* items of which one ended in Failure
C26_Witness ==
  /\ env.program = "combined"
  /\ mainpc = "xawait"
  /\ xiter = 1
  /\ XInFlight # {}
  /\ Len(results) = 2
  /\ completed = 1 /\ failed = 1

\* the attempt number of every item follows from the failed attempts of that
\* item alone, and a Failure is returned after the full budget of attempts
AttemptsAreOwn ==
  /\ \A k \in DOMAIN pc :
       /\ pc[k] \in {"head", "get", "pipe"} => attempt[k] = fails[k] + 1
       /\ pc[k] = "delay" => attempt[k] = fails[k] /\ attempt[k] < retryAttempts
       /\ pc[k] = "done" =>
            IF res[k].success THEN attempt[k] = fails[k] + 1
            ELSE attempt[k] = fails[k] /\ attempt[k] = Max(1, retryAttempts)
  /\ \A k \in DOMAIN xpc :
       /\ xpc[k] \in {"extract", "stats", "remove"} => xattempt[k] = xfails[k] + 1
       /\ xpc[k] = "delay" => xattempt[k] = xfails[k] /\ xattempt[k] < retryAttempts
       /\ xpc[k] = "done" =>
            IF xres[k].success THEN xattempt[k] = xfails[k] + 1
            ELSE xattempt[k] = xfails[k] /\ xattempt[k] = Max(1, retryAttempts)

\* C27: every item counts its own attempts: the attempt an item is at is one
\* more than the number of its own failed attempts, an item ends in Failure
\* only after retryAttempts attempts of its own (one when retryAttempts < 1),
\* and a step of one item (an attempt ending, a retry starting) changes the
\* attempt number, the failure count and the position of no other item of the
\* batch and of no item of the other pipeline.
C27_OwnAttemptCounter ==
  [][/\ AttemptsAreOwn'
     /\ \A k \in DOMAIN pc :
          (k \in DOMAIN pc' /\ mainpc = "await" /\ mainpc' = "await"
           /\ <<pc[k], attempt[k], fails[k]>> # <<pc'[k], attempt'[k], fails'[k]>>) =>
             /\ \A j \in DOMAIN pc \ {k} :
                  <<pc[j], attempt[j], fails[j], res[j]>> =
                    <<pc'[j], attempt'[j], fails'[j], res'[j]>>
             /\ UNCHANGED <<xattempt, xfails, xpc>>
             /\ fails'[k] # fails[k] =>
                  (pc'[k] = "delay") = (attempt[k] < retryAttempts)
     /\ \A k \in DOMAIN xpc :
          (k \in DOMAIN xpc' /\ mainpc = "xawait" /\ mainpc' = "xawait"
           /\ <<xpc[k], xattempt[k], xfails[k]>> # <<xpc'[k], xattempt'[k], xfails'[k]>>) =>
             /\ \A j \in DOMAIN xpc \ {k} :
                  <<xpc[j], xattempt[j], xfails[j], xres[j]>> =
                    <<xpc'[j], xattempt'[j], xfails'[j], xres'[j]>>
             /\ UNCHANGED <<attempt, fails, pc>>
             /\ xfails'[k] # xfails[k] =>
                  (xpc'[k] = "delay") = (xattempt[k] < retryAttempts)
    ]_vars

\* of a first batch of two downloads one used up its two attempts and the other
\* succeeded at once; the third item, in the next batch, still gets its second
\* attempt
C27_Witness ==
  /\ retryAttempts = 2
  /\ DOMAIN pc = 1..3
  /\ pc[1] = "done" /\ ~res[1].success /\ fails[1] = 2
  /\ pc[2] = "done" /\ res[2].success /\ attempt[2] = 1
  /\ pc[3] = "head" /\ attempt[3] = 2 /\ fails[3] = 1

C29_SkippedIsSuccess ==
  LET skippedAt == {n \in 1..Len(results) : results[n].skipped}
      transferred == {n \in 1..Len(results) : results[n].success /\ ~results[n].skipped}
  IN /\ \A n \in skippedAt : results[n].success /\ results[n].bytes = 0
     /\ completed = Cardinality(skippedAt) + Cardinality(transferred)
     /\ failed = Len(results) - Cardinality(skippedAt) - Cardinality(transferred)
     /\ \A m \in 1..Len(SummaryOf("download")) :
          LET e == SummaryOf("download")[m] IN
          /\ e.done = completed
          /\ e.bytes = SumOf([n \in 1..Len(results) |->
                                IF n \in transferred THEN BodySize(downloadUrls[n]) ELSE 0],
                             Len(results))
     /\ (mainpc = "exited" /\ exitVia = "start" /\ skippedAt = 1..Len(results)) =>
          /\ completed = total
          /\ failed = 0
          /\ exitCode = 0
          /\ SummaryOf("download")[1].bytes = 0

\* the second invocation on the same directory ended after it skipped its two
\* items: 2 completed, 0 failed, no bytes in the summary, exit code 0
C29_Witness ==
  /\ run = 2
  /\ mainpc = "exited" /\ exitVia = "start" /\ exitCode = 0
  /\ Len(results) = 2
  /\ results[1].skipped /\ results[2].skipped
  /\ completed = 2 /\ failed = 0 /\ total = 2
  /\ SummaryOf("download") = << Summary("download", 2, 2, 0, 0, 0) >>

\* ceil(n / d) for d >= 1
CeilDiv(n, d) == (n + d - 1) \div d

\* C30: whatever CONCURRENT_DOWNLOADS and CONCURRENT_EXTRACTIONS are set to,
\* the batch size the constructor keeps is an integer >= 1, the loop index
\* never goes below 0, and the loop begins at most ceil(length / batch size)
\* iterations.
C30_BatchSizeAtLeastOne ==
  /\ (env.program \in {"downloader", "combined"} /\ mainpc # "ctor") =>
        /\ concurrentDownloads >= 1
        /\ i >= 0
        /\ iter <= CeilDiv(Len(downloadUrls), concurrentDownloads)
        /\ ~(i < Len(downloadUrls)) =>
              iter = CeilDiv(Len(downloadUrls), concurrentDownloads)
  /\ (\/ env.program = "extractor" /\ ~env.help
      \/ env.program = "combined") /\ mainpc # "ctor" =>
        /\ concurrentExtractions >= 1
        /\ xi >= 0
        /\ xiter <= CeilDiv(Len(archiveFiles), concurrentExtractions)

\* severity rank of a level: error = 0, warn = 1, info = 2
Rank(level) == CASE level = "error" -> 0 [] level = "warn" -> 1 [] level = "info" -> 2

\* C31: for every configured log level T in {error, warn, info}, what has
\* been written is exactly the logged entries whose level L has rank(L) <=
\* rank(T), in the order of the calls; with T = error no warn or info entry is
\* written.
C31_LogThreshold ==
  env.LOG_LEVEL \in {"error", "warn", "info"} =>
     /\ console = SelectSeq(log, LAMBDA e : Rank(LevelOf(e)) <= Rank(env.LOG_LEVEL))
     /\ env.LOG_LEVEL = "error" =>
          \A n \in 1..Len(console) : LevelOf(console[n]) = "error"

====
